---------------------------- MODULE Spec2Model ----------------------------
(***************************************************************************)
(* Real-time object detection session (main.py, camera_handler.py,         *)
(* detector.py): the capture handle, the video writer, the run loop and    *)
(* its commands, modelled as a state machine.                              *)
(*                                                                         *)
(* External library calls (cv2.VideoCapture, cv2.VideoWriter, the YOLO     *)
(* model, cv2.imshow / waitKey) are the environment: each call's outcome   *)
(* is drawn with \E from the outcomes the call site distinguishes.         *)
(***************************************************************************)
EXTENDS Integers, Sequences, FiniteSets, TLC

VARIABLES
    pc,              \* position of the process in main() / run()
    camera,          \* CameraHandler: cap, is_opened (+ history of the handle)
    video_writer,    \* ObjectDetectionSystem.video_writer
    rec,             \* history of the recording: files, frames, toggles
    is_running,      \* ObjectDetectionSystem.is_running
    ret,             \* result flag of the tick's read_frame
    annotated_frame, \* overlays drawn so far on the tick's frame
    detections,      \* len(detections) of the tick
    tickLog,         \* the steps the current tick has performed, in order
    sink,            \* what the display, the recording and snapshots received
    keybuf,          \* key pressed and not yet polled by cv2.waitKey
    exitPath,        \* how the process left (or "running")
    exitCode,        \* process exit code, -1 while the process runs
    listing,         \* list_available_cameras: loop index and result
    recovered,       \* the previous tick was a failed read and a reconnect
    calls,           \* CameraHandler API calls made by a direct caller
    before,          \* camera state before the last direct API call
    reply,           \* what the last direct API call returned
    device,          \* the format the capture device delivers
    metrics,         \* ObjectDetector: fps, frame_count, start_time
    now,             \* time.time(), in clock units
    fpsLog,          \* history of the calculate_fps calls
    drawing          \* where _draw_annotations put the last label

vars == <<pc, camera, video_writer, rec, is_running, ret, annotated_frame,
          detections, tickLog, sink, keybuf, exitPath, exitCode, listing,
          recovered, calls, before, reply, device, metrics, now, fpsLog,
          drawing>>

tickVars == <<ret, annotated_frame, detections, tickLog>>
apiVars == <<calls, before, reply>>
fpsVars == <<metrics, now, fpsLog>>
unitVars == <<device, fpsVars, drawing>>

-----------------------------------------------------------------------------
(* Bounds of the model                                                     *)

MaxDet == 2      \* detections per frame: 0..MaxDet
MaxFrames == 3   \* frames counted in a recording (the count saturates)
MaxFiles == 2    \* recordings counted in a session (the count saturates)
MaxCalls == 4    \* direct CameraHandler calls after construction
Res == 2         \* clock units in one second
MaxTime == 6     \* the clock stops at this many units
MaxFpsCalls == 4 \* calculate_fps calls made by a direct caller
FrameSide == 8   \* width and height in pixels of the frames drawn on
MaxLabel == 2    \* width and height of a label's text: 1..MaxLabel

(* Program constants                                                       *)

max_cameras == 5
SHOW_FPS == TRUE
CAMERA_ID == 0
CAMERA_WIDTH == 640
CAMERA_HEIGHT == 480
CAMERA_FPS == 30

Keys == {"q", "esc", "s", "r", "i", "other"}
NoKey == "none"
NoFrame == <<"None">>
RawFrame == <<>>

Sat(n, max) == IF n < max THEN n + 1 ELSE n

\* What the camera is asked for (cap.set), and the formats a device may
\* report back (cap.get): the requested one or one of its own.
RequestedFormat ==
    [width |-> CAMERA_WIDTH, height |-> CAMERA_HEIGHT, fps |-> CAMERA_FPS]

DeviceFormats == {RequestedFormat, [width |-> 320, height |-> 240, fps |-> 15]}

\* frame.shape of a frame the device delivers: (rows, columns).
FrameShape(dev) == <<dev.height, dev.width>>

-----------------------------------------------------------------------------
(* CameraHandler (camera_handler.py)                                       *)
(*                                                                         *)
(* cap is "None" (no VideoCapture object), "closed" (an object whose       *)
(* device is not open) or "open" (an object holding the device).           *)
(* closes counts the times the device of the current object was actually  *)
(* closed, leaked says that an object was replaced while it still held     *)
(* the device, relCalls counts release() calls on the current object.      *)
(* opened_id is the index the current object was constructed with (-1      *)
(* without an object) and requested the properties set on it.              *)

CameraIds == {CAMERA_ID, 1}

NewCamera ==
    [cap |-> "None", is_opened |-> FALSE, closes |-> 0, relCalls |-> 0,
     leaked |-> FALSE, camera_id |-> CAMERA_ID, opened_id |-> -1,
     requested |-> <<>>]

OpenOutcomes == {"ctor_raise", "not_opened", "set_raise", "opened"}

\* cv2.VideoCapture.release(): closes the device when it is open, and does
\* nothing on a closed object.
CapRelease(c) ==
    [c EXCEPT !.cap = "closed",
              !.closes = IF c.cap = "open" THEN c.closes + 1 ELSE c.closes,
              !.relCalls = Sat(c.relCalls, MaxCalls)]

\* self.cap = cv2.VideoCapture(camera_id): a new object replaces the old one.
CapAssign(c, state) ==
    [c EXCEPT !.cap = state, !.closes = 0, !.relCalls = 0,
              !.leaked = c.leaked \/ c.cap = "open",
              !.opened_id = c.camera_id, !.requested = <<>>]

\* cap.set of width, height and fps, from the configuration.
CapSet(c) ==
    [c EXCEPT !.requested = <<CAMERA_WIDTH, CAMERA_HEIGHT, CAMERA_FPS>>]

InitializeCamera(c, outcome) ==
    CASE outcome = "ctor_raise" -> [c EXCEPT !.is_opened = FALSE]
      [] outcome = "not_opened" -> CapAssign(c, "closed")
      [] outcome = "set_raise"  -> [CapAssign(c, "open") EXCEPT !.is_opened = FALSE]
      [] OTHER                  -> [CapSet(CapAssign(c, "open")) EXCEPT !.is_opened = TRUE]

InitializeCameraResult(outcome) == outcome = "opened"

ReleaseIfOpened(c) ==
    IF c.is_opened
      THEN [CapRelease(c) EXCEPT !.is_opened = FALSE]
      ELSE c

Release(c) ==
    IF c.cap # "None"
      THEN [CapRelease(c) EXCEPT !.is_opened = FALSE]
      ELSE c

\* A reconnect that does nothing on a handler that is not opened.
ReconnectOnlyIfOpened(c, outcome) ==
    IF c.is_opened THEN InitializeCamera(Release(c), outcome) ELSE c

Reconnect(c, outcome) == InitializeCamera(Release(c), outcome)

IsAvailable(c) == c.is_opened /\ c.cap # "None" /\ c.cap = "open"

ReadOutcomes == {"ok", "fail", "raise"}

\* A read_frame without the try block: an exception of cap.read() leaves it.
ReadFrameResultNoTry(c, outcome) ==
    IF ~c.is_opened \/ c.cap = "None"
      THEN [raised |-> FALSE, ret |-> FALSE, frame |-> NoFrame]
      ELSE CASE outcome = "raise" ->
                  [raised |-> TRUE, ret |-> FALSE, frame |-> NoFrame]
             [] outcome = "ok" /\ c.cap = "open" ->
                  [raised |-> FALSE, ret |-> TRUE, frame |-> RawFrame]
             [] OTHER ->
                  [raised |-> FALSE, ret |-> FALSE, frame |-> NoFrame]

\* read_frame: whether an exception left it, the success flag and the frame.
ReadFrameResult(c, outcome) ==
    IF ~c.is_opened \/ c.cap = "None"
      THEN [raised |-> FALSE, ret |-> FALSE, frame |-> NoFrame]
      ELSE CASE outcome = "raise" ->
                  [raised |-> FALSE, ret |-> FALSE, frame |-> NoFrame]
             [] outcome = "ok" /\ c.cap = "open" ->
                  [raised |-> FALSE, ret |-> TRUE, frame |-> RawFrame]
             [] OTHER ->
                  [raised |-> FALSE, ret |-> FALSE, frame |-> NoFrame]

\* read_frame: the success flag.
ReadFrame(c, outcome) == ReadFrameResult(c, outcome).ret

-----------------------------------------------------------------------------
(* ObjectDetector.detect_objects (detector.py)                             *)

DetectOutcomes == {"ok", "error"}

\* Number of detections returned: an exception is caught inside
\* detect_objects, which then returns (frame, []).
DetectCount(outcome, n) == IF outcome = "ok" THEN n ELSE 0

\* The frame returned: a copy with the boxes and labels drawn, or the input
\* frame as it is on failure.
DetectFrame(frame, outcome, n) ==
    IF outcome = "ok" /\ n > 0 THEN Append(frame, "boxes") ELSE frame

-----------------------------------------------------------------------------
(* ObjectDetector.calculate_fps (detector.py)                              *)
(*                                                                         *)
(* Time is counted in clock units, Res of them in a second. fps is the     *)
(* quotient frame_count / elapsed_time in frames per second, kept as a     *)
(* fraction in lowest terms <<numerator, denominator>>. The run loop       *)
(* calls calculate_fps from draw_fps at every tick; the metrics are        *)
(* followed in FpsSpec, where the calls and the clock are free, and are    *)
(* left out of the loop's state.                                           *)

RECURSIVE GCD(_, _)
GCD(a, b) == IF b = 0 THEN a ELSE GCD(b, a % b)

Frac(n, d) == <<n \div GCD(n, d), d \div GCD(n, d)>>

Zero == <<0, 1>>

NewMetrics == [fps |-> Zero, frame_count |-> 0, start_time |-> 0]

\* The fps is recomputed at every call.
CalculateFpsEveryCall(m, t1, t2) ==
    LET frame_count == m.frame_count + 1
        elapsed_time == t1 - m.start_time
    IN  IF elapsed_time > Res
          THEN [fps |-> Frac(frame_count * Res, elapsed_time),
                frame_count |-> 0,
                start_time |-> t2]
          ELSE IF elapsed_time > 0
                 THEN [m EXCEPT !.fps = Frac(frame_count * Res, elapsed_time),
                                !.frame_count = frame_count]
                 ELSE [m EXCEPT !.frame_count = frame_count]

\* The window closes as soon as a second has elapsed.
CalculateFpsAtLeast(m, t1, t2) ==
    LET frame_count == m.frame_count + 1
        elapsed_time == t1 - m.start_time
    IN  IF elapsed_time >= Res
          THEN [fps |-> Frac(frame_count * Res, elapsed_time),
                frame_count |-> 0,
                start_time |-> t2]
          ELSE [m EXCEPT !.frame_count = frame_count]

\* calculate_fps with the clock read at t1 for elapsed_time and at t2 for
\* the new start_time; the value returned is the fps of the result.
CalculateFps(m, t1, t2) ==
    LET frame_count == m.frame_count + 1
        elapsed_time == t1 - m.start_time
    IN  IF elapsed_time > Res
          THEN [fps |-> Frac(frame_count * Res, elapsed_time),
                frame_count |-> 0,
                start_time |-> t2]
          ELSE [m EXCEPT !.frame_count = frame_count]

\* n: calls made; closes: calls that found more than a second elapsed;
\* sinceClose: calls since the last of those; window: the values returned
\* by the last of those and by the calls since.
NewFpsLog == [n |-> 0, closes |-> 0, sinceClose |-> 0, window |-> {}]

-----------------------------------------------------------------------------
(* ObjectDetector._draw_annotations (detector.py)                          *)
(*                                                                         *)
(* Points are <<x, y>>, y growing downwards from the top row 0. drawing    *)
(* keeps the rectangles and the text origin passed to cv2 for the last     *)
(* detection drawn, and the number of detections drawn.                    *)

LabelPad == 5

NewDrawing ==
    [n |-> 0, box |-> <<<<0, 0>>, <<0, 0>>>>, bg |-> <<<<0, 0>>, <<0, 0>>>>,
     text |-> <<0, 0>>]

\* The loop body for one detection with bbox (x1, y1, x2, y2), whose label
\* measures label_width by label_height with the given baseline.
DrawAnnotation(d, x1, y1, x2, y2, label_width, label_height, baseline) ==
    [n |-> d.n + 1,
     box |-> <<<<x1, y1>>, <<x2, y2>>>>,
     bg |-> <<<<x1, y1 - label_height - baseline - LabelPad>>,
              <<x1 + label_width, y1>>>>,
     text |-> <<x1, y1 - baseline - LabelPad>>]

-----------------------------------------------------------------------------
(* Recording (main.py, _toggle_recording and the writer's use)             *)
(*                                                                         *)
(* video_writer is "None", or names the state of the cv2.VideoWriter       *)
(* object it refers to: "open" (holds an output file), "failed" (the       *)
(* constructor could not open the file) or "released".                     *)

WriterOutcomes == {"open", "failed"}

RecordingState == IF video_writer = "None" THEN "Idle" ELSE "Active"

StateOf(vw) == IF vw = "None" THEN "Idle" ELSE "Active"

ToggleWriterKeepsHandle(vw, outcome) ==
    IF vw = "None" THEN outcome ELSE "released"

ToggleWriter(vw, outcome) ==
    IF vw = "None" THEN outcome ELSE "None"

\* A release() that leaves the object's file open.
WriterReleaseKeepsFile(w) == w

\* video_writer.release() on a writer object: its file, if any, is closed.
WriterRelease(w) == "released"

\* nFiles: recordings opened; wFrames: frames appended to the last one;
\* captured: frames read from the camera while that recording was open;
\* fps and frame_size: the arguments the last VideoWriter was built with;
\* leaked: the attribute was reassigned while its object held an open file.
NewRec ==
    [nFiles |-> 0, wFrames |-> 0, captured |-> 0, leaked |-> FALSE,
     toggles |-> <<>>, fps |-> 0, frame_size |-> <<0, 0>>]

\* The last two toggles, each as <<state before, state after>>.
LastTwo(s) == IF Len(s) > 2 THEN SubSeq(s, Len(s) - 1, Len(s)) ELSE s

\* A start path that also writes the frame at hand to the new file.
ToggleRecWritesFirst(vw, r, outcome) ==
    LET vw2 == ToggleWriter(vw, outcome)
        opened == vw = "None" /\ outcome = "open"
    IN  [r EXCEPT !.nFiles = IF opened THEN Sat(r.nFiles, MaxFiles) ELSE r.nFiles,
                  !.wFrames = IF opened THEN 1 ELSE r.wFrames,
                  !.captured = IF opened THEN 0 ELSE r.captured,
                  !.leaked = r.leaked \/ (vw # "None" /\ WriterRelease(vw) = "open"),
                  !.toggles = LastTwo(Append(r.toggles, <<StateOf(vw), StateOf(vw2)>>))]

ToggleRec(vw, r, outcome) ==
    LET vw2 == ToggleWriter(vw, outcome)
        opened == vw = "None" /\ outcome = "open"
    IN  [r EXCEPT !.nFiles = IF opened THEN Sat(r.nFiles, MaxFiles) ELSE r.nFiles,
                  !.wFrames = IF opened THEN 0 ELSE r.wFrames,
                  !.captured = IF opened THEN 0 ELSE r.captured,
                  !.leaked = r.leaked \/ (vw # "None" /\ WriterRelease(vw) = "open"),
                  !.toggles = LastTwo(Append(r.toggles, <<StateOf(vw), StateOf(vw2)>>))]

\* The start path's cv2.VideoWriter(filename, fourcc, fps, frame_size), for
\* a frame of the given shape.
WriterArgs(vw, r, shape) ==
    IF vw = "None"
      THEN [r EXCEPT !.fps = CAMERA_FPS, !.frame_size = <<shape[2], shape[1]>>]
      ELSE r

\* A frame read from the camera while a recording file is open.
CaptureRec(vw, r, ok) ==
    IF ok /\ vw = "open" THEN [r EXCEPT !.captured = Sat(r.captured, MaxFrames)] ELSE r

WriteOutcomes == {"ok", "raise"}

\* video_writer.write(frame): appends to an open writer's file.
WriteRec(vw, r) ==
    IF vw = "open" THEN [r EXCEPT !.wFrames = Sat(r.wFrames, MaxFrames)] ELSE r

\* cleanup(): the writer is released and the attribute keeps the object.
CleanupWriter(vw) == IF vw = "None" THEN "None" ELSE WriterRelease(vw)

-----------------------------------------------------------------------------
(* Commands (main.py, run, the key dispatch)                               *)

KeyCommandSaveToggles(k) ==
    CASE k \in {"q", "esc"} -> "quit"
      [] k = "s" -> "toggle"
      [] k = "r" -> "toggle"
      [] k = "i" -> "info"
      [] OTHER -> "nop"

KeyCommand(k) ==
    CASE k \in {"q", "esc"} -> "quit"
      [] k = "s" -> "snap"
      [] k = "r" -> "toggle"
      [] k = "i" -> "info"
      [] OTHER -> "nop"

-----------------------------------------------------------------------------
(* Session state (spec section 4.4), read off the position in the code     *)

InitPcs == {"main", "init_camera", "init_detector", "run"}
RunningPcs == {"read", "detect", "annotate", "record", "display", "poll"}
StoppedPcs == {"cleanup", "done"}

SessionState ==
    CASE pc \in InitPcs -> "Initializing"
      [] pc \in RunningPcs -> "Running"
      [] pc = "reconnect" -> "Reconnecting"
      [] pc \in StoppedPcs -> "Stopped"
      [] OTHER -> "NoSession"

NewSink == [shown |-> NoFrame, recorded |-> NoFrame, snapshot |-> NoFrame]

NewReply == [ret |-> FALSE, raised |-> FALSE, frame |-> NoFrame, outcome |-> "none"]

NewListing == [i |-> 0, available |-> <<>>, openable |-> {}, unreleased |-> 0]

Init ==
    /\ pc = "main"
    /\ camera = NewCamera
    /\ video_writer = "None"
    /\ rec = NewRec
    /\ is_running = FALSE
    /\ ret = FALSE
    /\ annotated_frame = NoFrame
    /\ detections = 0
    /\ tickLog = <<>>
    /\ sink = NewSink
    /\ keybuf = NoKey
    /\ exitPath = "running"
    /\ exitCode = -1
    /\ listing = NewListing
    /\ recovered = FALSE
    /\ calls = <<>>
    /\ before = NewCamera
    /\ reply = NewReply
    /\ device \in DeviceFormats
    /\ metrics = NewMetrics
    /\ now = 0
    /\ fpsLog = NewFpsLog
    /\ drawing = NewDrawing

-----------------------------------------------------------------------------
(* main() and ObjectDetectionSystem.__init__ (main.py)                     *)

\* main(): --list-cameras selects the listing; which indices have a device
\* that opens is the environment's.
Main ==
    /\ pc = "main"
    /\ \E list_cameras \in BOOLEAN :
         IF list_cameras
           THEN /\ pc' = "list"
                /\ \E openable \in SUBSET (0 .. max_cameras - 1) :
                     listing' = [listing EXCEPT !.openable = openable]
           ELSE /\ pc' = "init_camera"
                /\ UNCHANGED listing
    /\ UNCHANGED <<camera, video_writer, rec, is_running, tickVars, sink,
                   keybuf, exitPath, exitCode, apiVars, recovered,
                   unitVars>>

\* A probe that is appended and left open.
ListProbeNoRelease ==
    /\ pc = "list"
    /\ listing.i < max_cameras
    /\ LET opened == listing.i \in listing.openable
           probing == IF opened THEN listing.unreleased + 1
                      ELSE listing.unreleased
       IN  listing' = [listing EXCEPT
              !.i = listing.i + 1,
              !.available = IF opened THEN Append(listing.available, listing.i)
                            ELSE listing.available,
              !.unreleased = probing]
    /\ UNCHANGED <<pc, camera, video_writer, rec, is_running, tickVars, sink,
                   keybuf, exitPath, exitCode, apiVars, recovered,
                   unitVars>>

\* One iteration of list_available_cameras: open index i and, when it
\* opened, append it and release the probe. unreleased counts the probes
\* that hold a device.
ListProbe ==
    /\ pc = "list"
    /\ listing.i < max_cameras
    /\ LET opened == listing.i \in listing.openable
           probing == IF opened THEN listing.unreleased + 1
                      ELSE listing.unreleased
       IN  listing' = [listing EXCEPT
              !.i = listing.i + 1,
              !.available = IF opened THEN Append(listing.available, listing.i)
                            ELSE listing.available,
              !.unreleased = IF opened THEN probing - 1 ELSE probing]
    /\ UNCHANGED <<pc, camera, video_writer, rec, is_running, tickVars, sink,
                   keybuf, exitPath, exitCode, apiVars, recovered,
                   unitVars>>

ListDone ==
    /\ pc = "list"
    /\ listing.i = max_cameras
    /\ pc' = "done"
    /\ exitPath' = "listed"
    /\ exitCode' = 0
    /\ UNCHANGED <<camera, video_writer, rec, is_running, tickVars, sink,
                   keybuf, listing, apiVars, recovered,
                   unitVars>>

\* self.camera = CameraHandler(camera_id, Config)
InitCamera ==
    /\ pc = "init_camera"
    /\ \E o \in OpenOutcomes : camera' = InitializeCamera(camera, o)
    /\ pc' = "init_detector"
    /\ UNCHANGED <<video_writer, rec, is_running, tickVars, sink, keybuf,
                   exitPath, exitCode, listing, apiVars, recovered,
                   unitVars>>

\* self.detector = ObjectDetector(config=Config): _load_model falls back to
\* YOLO(Config.MODEL_NAME) inside its except handler, and an exception raised
\* there leaves __init__ and main().
InitDetector ==
    /\ pc = "init_detector"
    /\ \E loaded \in BOOLEAN :
         IF loaded
           THEN pc' = "run" /\ UNCHANGED <<exitPath, exitCode>>
           ELSE pc' = "done" /\ exitPath' = "init_error" /\ exitCode' = 1
    /\ UNCHANGED <<camera, video_writer, rec, is_running, tickVars, sink,
                   keybuf, listing, apiVars, recovered,
                   unitVars>>

-----------------------------------------------------------------------------
(* ObjectDetectionSystem.run (main.py)                                     *)

Run ==
    /\ pc = "run"
    /\ IF ~IsAvailable(camera)
         THEN /\ pc' = "done"
              /\ exitPath' = "camera_unavailable"
              /\ exitCode' = 0
              /\ UNCHANGED is_running
         ELSE /\ pc' = "read"
              /\ is_running' = TRUE
              /\ UNCHANGED <<exitPath, exitCode>>
    /\ UNCHANGED <<camera, video_writer, rec, tickVars, sink, keybuf,
                   listing, apiVars, recovered,
                   unitVars>>

\* Where the loop goes after the read: reconnection on a failed read.
AfterReadIgnoresFailure(ok) == "detect"

AfterRead(ok) == IF ok THEN "detect" ELSE "reconnect"

Read ==
    /\ pc = "read"
    /\ \E o \in ReadOutcomes :
         LET ok == ReadFrame(camera, o) IN
         /\ ret' = ok
         /\ annotated_frame' = IF ok THEN RawFrame ELSE NoFrame
         /\ tickLog' = <<IF ok THEN "read_ok" ELSE "read_fail">>
         /\ pc' = AfterRead(ok)
         /\ rec' = CaptureRec(video_writer, rec, ok)
    /\ detections' = 0
    /\ recovered' = (tickLog = <<"read_fail", "reconnect_ok">>)
    /\ UNCHANGED <<camera, video_writer, is_running, sink, keybuf,
                   exitPath, exitCode, listing, apiVars, unitVars>>

\* Where the loop goes after camera.reconnect(): break on failure.
AfterReconnectRetries(ok) == IF ok THEN "read" ELSE "reconnect"

AfterReconnect(ok) == IF ok THEN "read" ELSE "cleanup"

\* A reconnection that also ends the recording.
ReconnectCameraStopsRecording ==
    /\ pc = "reconnect"
    /\ \E o \in OpenOutcomes :
         LET ok == InitializeCameraResult(o) IN
         /\ camera' = Reconnect(camera, o)
         /\ tickLog' = Append(tickLog, IF ok THEN "reconnect_ok" ELSE "reconnect_fail")
         /\ pc' = AfterReconnect(ok)
         /\ exitPath' = IF ok THEN exitPath ELSE "reconnect_failed"
    /\ video_writer' = "None"
    /\ UNCHANGED <<rec, is_running, ret, annotated_frame,
                   detections, sink, keybuf, exitCode, listing, apiVars, recovered,
                   unitVars>>

ReconnectCamera ==
    /\ pc = "reconnect"
    /\ \E o \in OpenOutcomes :
         LET ok == InitializeCameraResult(o) IN
         /\ camera' = Reconnect(camera, o)
         /\ tickLog' = Append(tickLog, IF ok THEN "reconnect_ok" ELSE "reconnect_fail")
         /\ pc' = AfterReconnect(ok)
         /\ exitPath' = IF ok THEN exitPath ELSE "reconnect_failed"
    /\ UNCHANGED <<video_writer, rec, is_running, ret, annotated_frame,
                   detections, sink, keybuf, exitCode, listing, apiVars, recovered,
                   unitVars>>

\* detect_objects without its try/except: the exception reaches run()'s
\* handler and ends the session.
DetectNoCatch ==
    /\ pc = "detect"
    /\ \E o \in DetectOutcomes, n \in 0..MaxDet :
         /\ detections' = DetectCount(o, n)
         /\ annotated_frame' = DetectFrame(annotated_frame, o, n)
         /\ tickLog' = Append(tickLog, IF o = "ok" THEN "detect_ok" ELSE "detect_fail")
         /\ pc' = IF o = "ok" THEN "annotate" ELSE "cleanup"
         /\ exitPath' = IF o = "ok" THEN exitPath ELSE "loop_error"
    /\ UNCHANGED <<camera, video_writer, rec, is_running, ret, sink, keybuf,
                   exitCode, listing, apiVars, recovered,
                   unitVars>>

\* annotated_frame, detections = self.detector.detect_objects(frame)
Detect ==
    /\ pc = "detect"
    /\ \E o \in DetectOutcomes, n \in 0..MaxDet :
         /\ detections' = DetectCount(o, n)
         /\ annotated_frame' = DetectFrame(annotated_frame, o, n)
         /\ tickLog' = Append(tickLog, IF o = "ok" THEN "detect_ok" ELSE "detect_fail")
    /\ pc' = "annotate"
    /\ UNCHANGED <<camera, video_writer, rec, is_running, ret, sink, keybuf,
                   exitPath, exitCode, listing, apiVars, recovered,
                   unitVars>>

\* draw_fps (when SHOW_FPS) and the "Objects: n" text.
Overlays == IF SHOW_FPS THEN <<"fps", "count">> ELSE <<"count">>

Annotate ==
    /\ pc = "annotate"
    /\ annotated_frame' = annotated_frame \o Overlays
    /\ tickLog' = tickLog \o Overlays
    /\ pc' = "record"
    /\ UNCHANGED <<camera, video_writer, rec, is_running, ret, detections,
                   sink, keybuf, exitPath, exitCode, listing, apiVars, recovered,
                   unitVars>>

\* if self.video_writer is not None: write(annotated_frame), then the
\* recording indicator is drawn. An exception raised by write() reaches
\* run()'s handler.
RecordSkip ==
    /\ pc = "record"
    /\ video_writer = "None"
    /\ pc' = "display"
    /\ UNCHANGED <<camera, video_writer, rec, is_running, tickVars, sink,
                   keybuf, exitPath, exitCode, listing, apiVars, recovered,
                   unitVars>>

\* The indicator drawn before the frame is handed to the writer.
RecordWriteIndicatorFirst ==
    /\ pc = "record"
    /\ video_writer # "None"
    /\ rec' = WriteRec(video_writer, rec)
    /\ sink' = IF video_writer = "open"
                 THEN [sink EXCEPT !.recorded = Append(annotated_frame, "rec")]
                 ELSE sink
    /\ annotated_frame' = Append(annotated_frame, "rec")
    /\ tickLog' = tickLog \o <<"write", "rec">>
    /\ pc' = "display"
    /\ UNCHANGED <<camera, video_writer, is_running, ret, detections, keybuf,
                   exitPath, exitCode, listing, apiVars, recovered,
                   unitVars>>

RecordWrite ==
    /\ pc = "record"
    /\ video_writer # "None"
    /\ rec' = WriteRec(video_writer, rec)
    /\ sink' = IF video_writer = "open"
                 THEN [sink EXCEPT !.recorded = annotated_frame]
                 ELSE sink
    /\ annotated_frame' = Append(annotated_frame, "rec")
    /\ tickLog' = tickLog \o <<"write", "rec">>
    /\ pc' = "display"
    /\ UNCHANGED <<camera, video_writer, is_running, ret, detections, keybuf,
                   exitPath, exitCode, listing, apiVars, recovered,
                   unitVars>>

RecordWriteError ==
    /\ pc = "record"
    /\ video_writer # "None"
    /\ tickLog' = Append(tickLog, "write_error")
    /\ pc' = "cleanup"
    /\ exitPath' = "loop_error"
    /\ UNCHANGED <<camera, video_writer, rec, is_running, ret,
                   annotated_frame, detections, sink, keybuf, exitCode,
                   listing, apiVars, recovered,
                   unitVars>>

\* cv2.imshow(Config.WINDOW_NAME, annotated_frame)
Display ==
    /\ pc = "display"
    /\ sink' = [sink EXCEPT !.shown = annotated_frame]
    /\ tickLog' = Append(tickLog, "show")
    /\ pc' = "poll"
    /\ UNCHANGED <<camera, video_writer, rec, is_running, ret,
                   annotated_frame, detections, keybuf, exitPath, exitCode,
                   listing, apiVars, recovered,
                   unitVars>>

DisplayError ==
    /\ pc = "display"
    /\ tickLog' = Append(tickLog, "show_error")
    /\ pc' = "cleanup"
    /\ exitPath' = "loop_error"
    /\ UNCHANGED <<camera, video_writer, rec, is_running, ret,
                   annotated_frame, detections, sink, keybuf, exitCode,
                   listing, apiVars, recovered,
                   unitVars>>

\* key = cv2.waitKey(1) & 0xFF and its dispatch.
Polled == tickLog \o <<"poll", keybuf>>

PollQuit ==
    /\ pc = "poll"
    /\ KeyCommand(keybuf) = "quit"
    /\ keybuf' = NoKey
    /\ tickLog' = Polled
    /\ pc' = "cleanup"
    /\ exitPath' = "quit"
    /\ UNCHANGED <<camera, video_writer, rec, is_running, ret,
                   annotated_frame, detections, sink, exitCode, listing,
                   apiVars, recovered,
                   unitVars>>

PollSave ==
    /\ pc = "poll"
    /\ KeyCommand(keybuf) = "snap"
    /\ keybuf' = NoKey
    /\ tickLog' = Polled
    /\ sink' = [sink EXCEPT !.snapshot = annotated_frame]
    /\ pc' = "read"
    /\ UNCHANGED <<camera, video_writer, rec, is_running, ret,
                   annotated_frame, detections, exitPath, exitCode, listing,
                   apiVars, recovered,
                   unitVars>>

PollToggle ==
    /\ pc = "poll"
    /\ KeyCommand(keybuf) = "toggle"
    /\ keybuf' = NoKey
    /\ tickLog' = Polled
    /\ \E o \in WriterOutcomes :
         /\ video_writer' = ToggleWriter(video_writer, o)
         /\ rec' = WriterArgs(video_writer, ToggleRec(video_writer, rec, o),
                              FrameShape(device))
    /\ pc' = "read"
    /\ UNCHANGED <<camera, is_running, ret, annotated_frame, detections,
                   sink, exitPath, exitCode, listing, apiVars, recovered,
                   unitVars>>

PollOther ==
    /\ pc = "poll"
    /\ KeyCommand(keybuf) \in {"info", "nop"}
    /\ keybuf' = NoKey
    /\ tickLog' = Polled
    /\ pc' = "read"
    /\ UNCHANGED <<camera, video_writer, rec, is_running, ret,
                   annotated_frame, detections, sink, exitPath, exitCode,
                   listing, apiVars, recovered,
                   unitVars>>

\* except KeyboardInterrupt: the interrupt arrives while the loop runs.
KeyboardInterrupt ==
    /\ pc \in RunningPcs \cup {"reconnect"}
    /\ pc' = "cleanup"
    /\ exitPath' = "interrupted"
    /\ UNCHANGED <<camera, video_writer, rec, is_running, tickVars, sink,
                   keybuf, exitCode, listing, apiVars, recovered,
                   unitVars>>

\* cleanup(), run from the finally clause; main() then returns.
Cleanup ==
    /\ pc = "cleanup"
    /\ video_writer' = CleanupWriter(video_writer)
    /\ camera' = Release(camera)
    /\ pc' = "done"
    /\ exitCode' = 0
    /\ UNCHANGED <<rec, is_running, tickVars, sink, keybuf, exitPath,
                   listing, apiVars, recovered,
                   unitVars>>

\* The user presses a key while the window is up; it waits for waitKey.
KeyPress ==
    /\ SessionState \in {"Running", "Reconnecting"}
    /\ keybuf = NoKey
    /\ \E k \in Keys : keybuf' = k
    /\ UNCHANGED <<pc, camera, video_writer, rec, is_running, tickVars, sink,
                   exitPath, exitCode, listing, apiVars, recovered,
                   unitVars>>

\* The steps of the process itself.
Step ==
    \/ Main \/ ListProbe \/ ListDone \/ InitCamera \/ InitDetector \/ Run
    \/ Read \/ ReconnectCamera \/ Detect \/ Annotate
    \/ RecordSkip \/ RecordWrite \/ RecordWriteError
    \/ Display \/ DisplayError
    \/ PollQuit \/ PollSave \/ PollToggle \/ PollOther
    \/ Cleanup

Next == Step \/ KeyPress \/ KeyboardInterrupt

Spec == Init /\ [][Next]_vars

\* The loop is the only thread and keeps running: a step of the process
\* that is possible is eventually taken.
LiveSpec == Init /\ [][Next]_vars /\ WF_vars(Step)

-----------------------------------------------------------------------------
(* CameraHandler used directly: any sequence of release, reconnect,        *)
(* read_frame and is_available calls on a constructed handler.             *)

CamInit ==
    /\ pc = "api"
    /\ camera \in {InitializeCamera([NewCamera EXCEPT !.camera_id = id], o) :
                      id \in CameraIds, o \in OpenOutcomes}
    /\ video_writer = "None"
    /\ rec = NewRec
    /\ is_running = FALSE
    /\ ret = FALSE
    /\ annotated_frame = NoFrame
    /\ detections = 0
    /\ tickLog = <<>>
    /\ sink = NewSink
    /\ keybuf = NoKey
    /\ exitPath = "running"
    /\ exitCode = -1
    /\ listing = NewListing
    /\ recovered = FALSE
    /\ calls = <<>>
    /\ before = NewCamera
    /\ reply = NewReply
    /\ device = RequestedFormat
    /\ metrics = NewMetrics
    /\ now = 0
    /\ fpsLog = NewFpsLog
    /\ drawing = NewDrawing

sessionVars == <<pc, video_writer, rec, is_running, detections, tickLog, sink,
                 keybuf, exitPath, exitCode, listing, recovered>>

Called(name) ==
    /\ pc = "api"
    /\ Len(calls) < MaxCalls
    /\ calls' = Append(calls, name)
    /\ before' = camera

ApiRelease ==
    /\ Called("release")
    /\ camera' = Release(camera)
    /\ reply' = NewReply
    /\ UNCHANGED <<ret, annotated_frame, sessionVars, unitVars>>

ApiReconnect ==
    /\ Called("reconnect")
    /\ \E o \in OpenOutcomes :
         /\ camera' = Reconnect(camera, o)
         /\ ret' = InitializeCameraResult(o)
         /\ reply' = [NewReply EXCEPT !.ret = InitializeCameraResult(o),
                                      !.outcome = o]
    /\ UNCHANGED <<annotated_frame, sessionVars, unitVars>>

ApiReadFrame ==
    /\ Called("read_frame")
    /\ \E o \in ReadOutcomes :
         LET r == ReadFrameResult(camera, o) IN
         /\ ret' = r.ret
         /\ annotated_frame' = r.frame
         /\ reply' = [ret |-> r.ret, raised |-> r.raised, frame |-> r.frame,
                      outcome |-> o]
    /\ UNCHANGED <<camera, sessionVars, unitVars>>

ApiIsAvailable ==
    /\ Called("is_available")
    /\ ret' = IsAvailable(camera)
    /\ reply' = [NewReply EXCEPT !.ret = IsAvailable(camera)]
    /\ UNCHANGED <<camera, annotated_frame, sessionVars, unitVars>>

CamNext == ApiRelease \/ ApiReconnect \/ ApiReadFrame \/ ApiIsAvailable

CamSpec == CamInit /\ [][CamNext]_vars

-----------------------------------------------------------------------------
(* ObjectDetector.calculate_fps used directly: any interleaving of calls   *)
(* and of the clock.                                                       *)

FpsInit ==
    /\ pc = "fps"
    /\ camera = NewCamera
    /\ video_writer = "None"
    /\ rec = NewRec
    /\ is_running = FALSE
    /\ ret = FALSE
    /\ annotated_frame = NoFrame
    /\ detections = 0
    /\ tickLog = <<>>
    /\ sink = NewSink
    /\ keybuf = NoKey
    /\ exitPath = "running"
    /\ exitCode = -1
    /\ listing = NewListing
    /\ recovered = FALSE
    /\ calls = <<>>
    /\ before = NewCamera
    /\ reply = NewReply
    /\ device = RequestedFormat
    /\ metrics = NewMetrics
    /\ now = 0
    /\ fpsLog = NewFpsLog
    /\ drawing = NewDrawing

ClockTick ==
    /\ pc = "fps"
    /\ now < MaxTime
    /\ now' = now + 1
    /\ UNCHANGED <<camera, ret, annotated_frame, sessionVars, apiVars, device,
                   metrics, fpsLog, drawing>>

ApiCalculateFps ==
    /\ pc = "fps"
    /\ fpsLog.n < MaxFpsCalls
    /\ \E t2 \in {now, now + 1} :
         /\ t2 <= MaxTime
         /\ metrics' = CalculateFps(metrics, now, t2)
         /\ now' = t2
    /\ LET closing == now - metrics.start_time > Res IN
         fpsLog' = [n |-> fpsLog.n + 1,
                    closes |-> IF closing THEN fpsLog.closes + 1 ELSE fpsLog.closes,
                    sinceClose |-> IF closing THEN 0 ELSE fpsLog.sinceClose + 1,
                    window |-> IF closing THEN {metrics'.fps}
                               ELSE fpsLog.window \cup {metrics'.fps}]
    /\ UNCHANGED <<camera, ret, annotated_frame, sessionVars, apiVars, device,
                   drawing>>

FpsNext == ClockTick \/ ApiCalculateFps

FpsSpec == FpsInit /\ [][FpsNext]_vars

-----------------------------------------------------------------------------
(* ObjectDetector._draw_annotations used directly, on a frame of           *)
(* FrameSide by FrameSide pixels, with detections whose box lies inside    *)
(* the frame.                                                              *)

DrawInit ==
    /\ pc = "draw"
    /\ camera = NewCamera
    /\ video_writer = "None"
    /\ rec = NewRec
    /\ is_running = FALSE
    /\ ret = FALSE
    /\ annotated_frame = NoFrame
    /\ detections = 0
    /\ tickLog = <<>>
    /\ sink = NewSink
    /\ keybuf = NoKey
    /\ exitPath = "running"
    /\ exitCode = -1
    /\ listing = NewListing
    /\ recovered = FALSE
    /\ calls = <<>>
    /\ before = NewCamera
    /\ reply = NewReply
    /\ device = RequestedFormat
    /\ metrics = NewMetrics
    /\ now = 0
    /\ fpsLog = NewFpsLog
    /\ drawing = NewDrawing

\* One detection is drawn on the frame.
DrawDetection ==
    /\ pc = "draw"
    /\ drawing.n = 0
    /\ \E x1, y1, x2, y2 \in 0 .. FrameSide - 1 :
         /\ x1 < x2
         /\ y1 < y2
         /\ \E label_width, label_height \in 1 .. MaxLabel, baseline \in 0 .. 1 :
              drawing' = DrawAnnotation(drawing, x1, y1, x2, y2,
                                        label_width, label_height, baseline)
    /\ UNCHANGED <<camera, ret, annotated_frame, sessionVars, apiVars, device,
                   fpsVars>>

DrawNext == DrawDetection

DrawSpec == DrawInit /\ [][DrawNext]_vars

-----------------------------------------------------------------------------
(* Properties                                                              *)

Range(s) == {s[i] : i \in DOMAIN s}
Last(s) == s[Len(s)]
EndsWith(s, x) == s # <<>> /\ Last(s) = x

\* The logs of a tick that went through every step after a successful read.
CompleteTicks ==
    {<<"read_ok", d>> \o Overlays \o w \o <<"show", "poll", k>> :
        d \in {"detect_ok", "detect_fail"},
        w \in {<<>>, <<"write", "rec">>},
        k \in Keys \cup {NoKey}}

FailedTicks ==
    {<<"read_fail">>, <<"read_fail", "reconnect_ok">>,
     <<"read_fail", "reconnect_fail">>}

\* C1: in every terminal state no camera handle and no writer is left open
\* (nor was one dropped while open), whatever the exit path.
AllReleasedOnExit ==
    pc = "done" =>
        /\ camera.cap # "open"
        /\ ~camera.leaked
        /\ video_writer # "open"

\* C2: Running -> Reconnecting exactly on a failed read; Reconnecting ->
\* Running on a successful reconnect and -> Stopped on a failed one, with one
\* attempt per failed read; Stopped is never left and nothing is read,
\* detected, recorded or displayed in it.
SessionStateMachine ==
    /\ [](Cardinality({i \in DOMAIN tickLog :
                         tickLog[i] \in {"reconnect_ok", "reconnect_fail"}}) <= 1)
    /\ [][/\ (SessionState = "Running" /\ SessionState' = "Reconnecting")
               => (pc = "read" /\ tickLog' = <<"read_fail">>)
          /\ (pc = "read" /\ tickLog' = <<"read_fail">>)
               => SessionState' = "Reconnecting"
          /\ SessionState = "Reconnecting"
               => /\ SessionState' \in {"Reconnecting", "Running", "Stopped"}
                  /\ SessionState' = "Reconnecting" => tickLog' = tickLog
                  /\ SessionState' = "Running"
                       => (pc' = "read" /\ tickLog' = <<"read_fail", "reconnect_ok">>)
                  /\ EndsWith(tickLog', "reconnect_ok") => SessionState' = "Running"
                  /\ EndsWith(tickLog', "reconnect_fail") => SessionState' = "Stopped"
                  /\ (SessionState' = "Stopped" /\ exitPath' # "interrupted")
                       => tickLog' = <<"read_fail", "reconnect_fail">>
          /\ SessionState = "Stopped"
               => /\ SessionState' = "Stopped"
                  /\ tickLog' = tickLog
                  /\ sink' = sink
                  /\ rec' = rec
                  /\ ret' = ret
         ]_vars

\* C2 witness: a failed reconnect has stopped the session.
ReconnectFailedStopped ==
    /\ pc = "done"
    /\ tickLog = <<"read_fail", "reconnect_fail">>
    /\ exitPath = "reconnect_failed"

\* C3: a tick whose read failed performs no detection, write, display or
\* command dispatch, and every frame read successfully has gone through all
\* the steps of its tick when the next read starts, also right after a
\* recovery.
FailedTickOnlySkipsItself ==
    /\ [](/\ (tickLog # <<>> /\ tickLog[1] = "read_fail") => tickLog \in FailedTicks
          /\ (pc = "read" /\ tickLog # <<>> /\ tickLog[1] = "read_ok")
               => tickLog \in CompleteTicks
          /\ (pc = "read" /\ tickLog \in CompleteTicks)
               => /\ sink.shown = annotated_frame
                  /\ ret)
    /\ [][(tickLog' # <<>> /\ tickLog'[1] = "read_fail" /\ pc' # "done")
            => /\ sink' = sink
               /\ rec' = rec
               /\ video_writer' = video_writer
               /\ (keybuf # NoKey => keybuf' = keybuf)
         ]_vars

\* C3 witness: the tick after a failed read and a reconnect ran completely.
RecoveredTickComplete ==
    /\ recovered
    /\ pc = "read"
    /\ tickLog \in CompleteTicks
    /\ SessionState = "Running"

\* C4: a pending quit key is eventually followed by the session stopping.
QuitResponsive ==
    (keybuf \in {"q", "esc"} /\ SessionState \in {"Running", "Reconnecting"})
        ~> (SessionState = "Stopped")

\* C5: after a write error the recording is Idle and the session is still
\* Running.
WriteErrorOnlyStopsRecording ==
    EndsWith(tickLog, "write_error") =>
        /\ RecordingState = "Idle"
        /\ SessionState = "Running"

\* C6: a tick whose detection failed has zero detections and no boxes, goes
\* on to the annotation step, and is displayed and polled before the next
\* read.
DetectionFailureNonFatal ==
    /\ [](/\ "detect_fail" \in Range(tickLog)
               => (detections = 0 /\ "boxes" \notin Range(annotated_frame))
          /\ (pc = "read" /\ "detect_fail" \in Range(tickLog))
               => /\ tickLog \in CompleteTicks
                  /\ sink.shown = annotated_frame)
    /\ [][(pc = "detect" /\ EndsWith(tickLog', "detect_fail"))
            => (pc' = "annotate" /\ SessionState' = "Running")
         ]_vars

\* C6 witness: a tick with a failed detection was displayed plain and polled.
FailedDetectionDisplayed ==
    /\ pc = "read"
    /\ "detect_fail" \in Range(tickLog)
    /\ "poll" \in Range(tickLog)
    /\ sink.shown = Overlays

\* C7: a camera that cannot be opened at startup ends the process without a
\* tick and with a non-zero exit code; quit and the listing exit with 0.
ExitCodes ==
    pc = "done" =>
        /\ exitPath = "camera_unavailable"
             => (exitCode # 0 /\ tickLog = <<>> /\ sink = NewSink)
        /\ exitPath \in {"quit", "listed"} => exitCode = 0

\* C8: release() leaves no device open, closes the device of a handle at
\* most once and exactly once when it was open, and a further release()
\* closes nothing and changes nothing; no handle is replaced while it still
\* holds the device.
ReleaseIdempotent ==
    /\ ~camera.leaked
    /\ camera.closes <= 1
    /\ EndsWith(calls, "release") =>
         /\ camera.cap # "open"
         /\ ~camera.is_opened
         /\ before.cap = "open" => camera.closes = 1
         /\ before.cap # "open" =>
              (camera.closes = before.closes /\ camera.cap = before.cap)

\* C8 witness: release() was called twice on a handle that had been opened.
ReleasedTwice ==
    /\ Len(calls) >= 2
    /\ calls[Len(calls)] = "release"
    /\ calls[Len(calls) - 1] = "release"
    /\ camera.closes = 1
    /\ camera.relCalls = 2

\* C9: the second of two consecutive toggles restores the recording state
\* the first one found, and while recording is Idle no frame is written and
\* no file is created other than by the toggle command.
ToggleInvolution ==
    /\ [](Len(rec.toggles) = 2 =>
            /\ rec.toggles[2][1] = rec.toggles[1][2]
            /\ rec.toggles[2][2] = rec.toggles[1][1])
    /\ [](Len(rec.toggles) >= 1 => rec.toggles[1][1] # rec.toggles[1][2])
    /\ [][RecordingState = "Idle" =>
            /\ sink'.recorded = sink.recorded
            /\ \/ (rec'.wFrames = rec.wFrames /\ rec'.nFiles = rec.nFiles)
               \/ (pc = "poll" /\ keybuf = "r" /\ rec'.wFrames = 0)
         ]_vars

\* C9 witness: Active -> Idle -> Active by two toggles.
ToggledTwice ==
    /\ Len(rec.toggles) = 2
    /\ rec.toggles[1] = <<"Active", "Idle">>
    /\ rec.toggles[2] = <<"Idle", "Active">>
    /\ RecordingState = "Active"

\* C10: recording is Idle until the loop runs, and the recording state
\* changes only in the dispatch of the toggle key.
OnlyToggleChangesRecording ==
    /\ [](SessionState = "Initializing" => RecordingState = "Idle")
    /\ [][RecordingState' # RecordingState => (pc = "poll" /\ keybuf = "r")]_vars

\* C10 witness: recording stayed Active through a failed read and a reconnect.
ActiveAcrossReconnect ==
    /\ RecordingState = "Active"
    /\ tickLog = <<"read_fail", "reconnect_ok">>
    /\ pc = "read"

\* C11: a recording whose writer opened is one new file, and when it is
\* toggled off (and at every start of a tick while it is open) the file
\* holds exactly the frames read while it was open: one per tick with a
\* successful read, none on a failed read, none while Idle.
RecordingHoldsCapturedFrames ==
    /\ []((pc = "read" \/ video_writer = "None") => rec.wFrames = rec.captured)
    /\ [][/\ rec'.nFiles # rec.nFiles
               => /\ pc = "poll" /\ keybuf = "r" /\ video_writer = "None"
                  /\ rec'.nFiles = rec.nFiles + 1
                  /\ rec'.wFrames = 0
          /\ (pc = "poll" /\ keybuf = "r" /\ video_writer = "None"
                /\ video_writer' = "open" /\ rec.nFiles < MaxFiles)
               => rec'.nFiles = rec.nFiles + 1
          /\ (rec'.wFrames # rec.wFrames /\ ~(pc = "poll" /\ keybuf = "r"))
               => /\ pc = "record" /\ video_writer = "open" /\ ret
                  /\ rec'.wFrames = rec.wFrames + 1
          /\ (pc = "record" /\ pc' = "display" /\ video_writer = "open"
                /\ rec.wFrames < MaxFrames)
               => rec'.wFrames = rec.wFrames + 1
          /\ (tickLog' = <<"read_fail">> \/ video_writer = "None")
               => (rec'.wFrames = rec.wFrames \/ (pc = "poll" /\ keybuf = "r"))
         ]_vars

\* C11 witness: a recording toggled on, two frames captured (with a failed
\* read in between or not), toggled off: one file of two frames.
RecordedTwoFrames ==
    /\ video_writer = "None"
    /\ rec.nFiles = 1
    /\ rec.wFrames = 2
    /\ rec.captured = 2
    /\ Len(rec.toggles) = 2
    /\ rec.toggles[2] = <<"Active", "Idle">>

\* The frame of a tick with every overlay drawn, in drawing order.
AllOverlays(dets, indicator) ==
    (IF dets > 0 THEN <<"boxes">> ELSE <<>>) \o <<"fps", "count">>
        \o (IF indicator THEN <<"rec">> ELSE <<>>)

Written == pc = "record" /\ pc' = "display" /\ video_writer = "open"
Shown == pc = "display" /\ pc' = "poll"
Saved == pc = "poll" /\ keybuf = "s" /\ pc' = "read"

\* C12 as stated: the frame written to the recording, displayed or saved as
\* a snapshot carries every overlay of the tick, the recording indicator
\* included while recording is Active.
AllOverlaysBeforeConsumers ==
    [][/\ Written => sink'.recorded = AllOverlays(detections, TRUE)
       /\ Shown => sink'.shown = AllOverlays(detections, video_writer # "None")
       /\ Saved => sink'.snapshot = AllOverlays(detections, video_writer # "None")
      ]_vars

\* C12 amended: boxes, FPS and object count are drawn before the frame is
\* written, displayed or saved; the recording indicator is drawn after the
\* write and before the display and the snapshot, so a recorded frame
\* carries every overlay but the indicator.
OverlaysBeforeConsumersButIndicator ==
    [][/\ Written => sink'.recorded = AllOverlays(detections, FALSE)
       /\ Shown => sink'.shown = AllOverlays(detections, video_writer # "None")
       /\ Saved => sink'.snapshot = AllOverlays(detections, video_writer # "None")
      ]_vars

\* C12 witness: a frame with boxes was recorded, displayed and saved while
\* recording was Active.
RecordedShownSaved ==
    /\ sink.recorded = <<"boxes", "fps", "count">>
    /\ sink.shown = <<"boxes", "fps", "count", "rec">>
    /\ sink.snapshot = <<"boxes", "fps", "count", "rec">>

\* C13: between two window closes every calculate_fps call returns the
\* same value: the values returned by the call that closed the last window
\* and by the calls since (or by all calls, before the first close) are
\* at most one value.
FpsStableWithinWindow == Cardinality(fpsLog.window) <= 1

\* C13 witness: two windows were closed and two calls were made in the
\* window open since, all returning the non-zero fps of the last close.
TwoCallsInThirdWindow ==
    /\ fpsLog.closes = 2
    /\ fpsLog.sinceClose = 2
    /\ fpsLog.window = {metrics.fps}
    /\ metrics.fps # Zero

\* C20: every calculate_fps call increments frame_count; a call that finds
\* more than one second elapsed since start_time sets fps to the incremented
\* frame_count divided by the elapsed seconds, frame_count to 0 and
\* start_time to the time of the reset; any other call leaves fps and
\* start_time as they were. So frame_count is the number of calls since the
\* last window close and fps is 0 until the first close.
FpsWindowArithmetic ==
    /\ [](/\ metrics.frame_count = fpsLog.sinceClose
          /\ fpsLog.closes = 0 => metrics.fps = <<0, 1>>)
    /\ [][fpsLog'.n = fpsLog.n + 1 =>
            LET elapsed == now - metrics.start_time IN
            IF elapsed > Res
              THEN /\ metrics'.fps[1] * elapsed
                        = metrics'.fps[2] * (metrics.frame_count + 1) * Res
                   /\ metrics'.fps[2] > 0
                   /\ metrics'.frame_count = 0
                   /\ metrics'.start_time = now'
              ELSE /\ metrics'.frame_count = metrics.frame_count + 1
                   /\ metrics'.start_time = metrics.start_time
                   /\ metrics'.fps = metrics.fps
         ]_vars

\* C20 witness: the first window was closed by the third call, more than a
\* second after the start, and one call was counted in the new window.
FirstWindowClosed ==
    /\ fpsLog.closes = 1
    /\ fpsLog.n = 4
    /\ metrics.frame_count = 1
    /\ metrics.fps[1] > metrics.fps[2]
    /\ metrics.start_time > Res

\* C14: list_available_cameras returns exactly the indices below
\* max_cameras whose device opens, in ascending order, and no probe it
\* opened is still open when it returns.
ListsOpenableAscending ==
    exitPath = "listed" =>
        /\ Range(listing.available) = listing.openable
        /\ listing.openable \subseteq 0 .. max_cameras - 1
        /\ \A i, j \in DOMAIN listing.available :
              i < j => listing.available[i] < listing.available[j]
        /\ listing.unreleased = 0

\* C14 witness: indices 0 and 2 open, 1 does not; the listing is [0, 2].
ListedZeroAndTwo ==
    /\ exitPath = "listed"
    /\ listing.openable = {0, 2}
    /\ listing.available = <<0, 2>>

\* C15: reconnect() right after a manual release() succeeds when the device
\* opens: the handler holds a capture opened with its own camera_id and the
\* configured width, height and fps, is_available() is true and a read can
\* return a frame; when the device does not open, reconnect() returns False
\* and is_available() is false.
ReconnectAfterRelease ==
    (/\ Len(calls) >= 2
     /\ calls[Len(calls) - 1] = "release"
     /\ calls[Len(calls)] = "reconnect")
    => IF reply.outcome = "opened"
         THEN /\ reply.ret
              /\ IsAvailable(camera)
              /\ camera.camera_id = before.camera_id
              /\ camera.opened_id = before.camera_id
              /\ camera.requested = <<CAMERA_WIDTH, CAMERA_HEIGHT, CAMERA_FPS>>
              /\ ReadFrameResult(camera, "ok").ret
              /\ ReadFrameResult(camera, "ok").frame = RawFrame
         ELSE /\ ~reply.ret
              /\ ~IsAvailable(camera)

\* C15 witness: camera 1 was opened, released by hand and reconnected.
ReconnectedAfterRelease ==
    /\ calls = <<"release", "reconnect">>
    /\ reply.outcome = "opened"
    /\ before.closes = 1
    /\ camera.opened_id = 1
    /\ IsAvailable(camera)

\* C18: read_frame never raises: on a handler never opened or released, on
\* a failed read and on an exception of the device it returns (False, None),
\* and otherwise (True, frame); a failure never comes with a frame.
ReadFrameNeverRaises ==
    (calls # <<>> /\ calls[Len(calls)] = "read_frame")
    => /\ ~reply.raised
       /\ \/ reply.ret /\ reply.frame = RawFrame
          \/ ~reply.ret /\ reply.frame = NoFrame
       /\ (~before.is_opened \/ before.cap \in {"None", "closed"}
             \/ reply.outcome \in {"fail", "raise"}) => ~reply.ret
       /\ camera = before

\* C18 witness: the device raised during a read on an opened handler.
ReadRaisedInside ==
    /\ calls # <<>>
    /\ calls[Len(calls)] = "read_frame"
    /\ reply.outcome = "raise"
    /\ IsAvailable(before)
    /\ ~reply.ret

\* C16: a recording is opened at the fps the device reported after the open
\* and at the width and height of the frame at hand.
RecordingAtNegotiatedFormat ==
    rec.nFiles > 0 =>
        /\ rec.fps = device.fps
        /\ rec.frame_size = <<device.width, device.height>>

\* C17: after the shutdown (cleanup) the recording is Idle and no writer is
\* open, as after the stop path of the toggle.
ShutdownLeavesIdle ==
    (pc = "done" /\ exitPath \notin {"listed", "init_error", "camera_unavailable"})
    => /\ RecordingState = "Idle"
       /\ video_writer # "open"

InFrame(p) ==
    /\ 0 <= p[1] /\ p[1] <= FrameSide - 1
    /\ 0 <= p[2] /\ p[2] <= FrameSide - 1

\* C19: for a detection whose box lies inside the frame, the label's
\* background rectangle and the text origin are inside the frame.
LabelInsideFrame ==
    (drawing.n > 0 /\ InFrame(drawing.box[1]) /\ InFrame(drawing.box[2]))
    => /\ InFrame(drawing.bg[1])
       /\ InFrame(drawing.bg[2])
       /\ InFrame(drawing.text)

\* C21: at most one video writer is open at any time: a writer is created
\* only by the toggle command and only while the attribute holds none; an
\* open writer stops being open only by the release of the toggle's stop
\* path or of cleanup; the attribute is never reassigned while its object
\* holds an open file, and none is open when the process has ended.
AtMostOneWriter ==
    /\ [](/\ ~rec.leaked
          /\ pc = "done" => video_writer # "open")
    /\ [][/\ (video_writer' \in WriterOutcomes /\ video_writer' # video_writer)
              => /\ video_writer = "None"
                 /\ pc = "poll" /\ keybuf = "r"
          /\ (video_writer = "open" /\ video_writer' # "open")
              => \/ pc = "cleanup" /\ video_writer' = "released"
                 \/ pc = "poll" /\ keybuf = "r" /\ video_writer' = "None"
          /\ rec'.nFiles # rec.nFiles => video_writer = "None"
         ]_vars

\* C21 witness: a first recording was started and stopped, a second one
\* started, and the shutdown released it.
SecondWriterReleasedAtShutdown ==
    /\ pc = "done"
    /\ video_writer = "released"
    /\ rec.nFiles = 2
    /\ ~rec.leaked
    /\ rec.toggles = <<<<"Active", "Idle">>, <<"Idle", "Active">>>>

\* C22: a failed read and the successful reconnect after it change neither
\* the writer nor the recording, and in the tick after the reconnect the
\* frame read is written to the same file: no new file is opened and the
\* file's frame count grows by the one frame.
ReconnectKeepsRecording ==
    [][/\ (pc = "read" /\ pc' = "reconnect")
           => video_writer' = video_writer /\ rec' = rec
       /\ (pc = "reconnect" /\ pc' = "read")
           => video_writer' = video_writer /\ rec' = rec
       /\ (pc = "read" /\ tickLog = <<"read_fail", "reconnect_ok">>)
           => /\ video_writer' = video_writer
              /\ rec'.nFiles = rec.nFiles
              /\ rec'.wFrames = rec.wFrames
       /\ (recovered /\ pc \in {"detect", "annotate"})
           => video_writer' = video_writer /\ rec' = rec
       /\ (recovered /\ pc = "record" /\ pc' = "display" /\ video_writer = "open")
           => /\ video_writer' = "open"
              /\ rec'.nFiles = rec.nFiles
              /\ rec'.wFrames = IF rec.wFrames < MaxFrames
                                  THEN rec.wFrames + 1 ELSE rec.wFrames
              /\ sink'.recorded = annotated_frame
      ]_vars

\* C22 witness: a frame was recorded, a read failed, the reconnect succeeded
\* and the next frame was written to the same, first file.
RecordedAgainAfterReconnect ==
    /\ recovered
    /\ pc = "display"
    /\ video_writer = "open"
    /\ rec.nFiles = 1
    /\ rec.wFrames = 2
    /\ rec.captured = 2
    /\ EndsWith(tickLog, "rec")

=============================================================================
